---- MODULE Spec2Model ----
(***************************************************************************)
(* Ethereum transaction signing of the Avalanche Ledger application:       *)
(* the packet handler Sign::handle, Sign::start_sign, the review handle    *)
(* SignUI (accept / reject), cleanup_globals                               *)
(* (app/src/handlers/eth/signing.rs) and the NFTTransferOperation decoder  *)
(* (app/src/parser/operations/nft_transfer_operation.rs).                  *)
(*                                                                         *)
(* Bytes are the integers 0..255.  An Option<T> is a sequence of length    *)
(* at most one: <<>> is None and <<v>> is Some(v).                         *)
(***************************************************************************)
EXTENDS Integers, Sequences, FiniteSets, TLC

VARIABLES
    PATH,       \* Lock<Option<BIP32Path>>: [lock, item]
    BUFFER,     \* Lock<SwapBuffer>: [lock, item], item the bytes written so far
    NFT_INFO,   \* Lock<Option<NftInfo>>: [lock, item]
    ui,         \* the SignUI handed to the review: [live, pending, hash, tx, path]
    ret,        \* what the last entry point returned (and the bytes it wrote to out),
                \* whether it invoked start_sign, and its call of the signing primitive
    hdr,        \* history: the (read, to_read) pair of the last init packet
    stream,     \* what a caller holds for delivery (the bytes of a transaction,
    pos,        \* or a sequence of packet payloads), and a position in it
    nft         \* an input of the NFTTransferOperation decoder and its result

vars == <<PATH, BUFFER, NFT_INFO, ui, ret, hdr, stream, pos, nft>>

----------------------------------------------------------------------------
(* Bounds of the model *)

\* longest transaction data of one packet (after the derivation path)
MaxData == 2
\* capacity of the reassembly buffer
BufCap == 3
\* longest transaction a host delivers in chunks
MaxStream == 5
\* longest payload of the first packet, and most packets, of a host that
\* sends packets of any sizes
MaxPacket == 3
MaxPackets == 2

\* the byte values packets are built from: 0x01 (version byte, list item),
\* 0xC1 and 0xC2 (headers of lists of one and two bytes)
DataBytes == {1, 193, 194}

\* derivation paths an init packet can carry ("bad" does not parse)
Paths == {"m/44'/60'/0'/0/0", "m/44'/60'/0'/0/1"}
PathInputs == Paths \cup {"bad"}

SeqsUpTo(S, n) == UNION {[1..k -> S] : k \in 0..n}

Min(a, b) == IF a <= b THEN a ELSE b

Rep(n, b) == [i \in 1..n |-> b]

Take(s, n) == SubSeq(s, 1, Min(n, Len(s)))

Drop(s, n) == SubSeq(s, n + 1, Len(s))

Last(s) == s[Len(s)]

----------------------------------------------------------------------------
(* ApduError as Error *)

Success == "Success"
WrongLength == "WrongLength"
DataInvalid == "DataInvalid"
ApduCodeConditionsNotSatisfied == "ConditionsNotSatisfied"
ExecutionError == "ExecutionError"
InvalidP1P2 == "InvalidP1P2"
CommandNotAllowed == "CommandNotAllowed"

\* the accessor token of this handler (`Self` / `Sign`)
Sign == "Sign"

----------------------------------------------------------------------------
(* Resource Lock Manager: lock / acquire / release of one guarded resource *)

\* claim exclusively; fails if already claimed by a different holder
Lock_lock(L, who) ==
    IF L.lock # <<>> /\ L.lock # <<who>>
    THEN [ok |-> FALSE, l |-> L]
    ELSE [ok |-> TRUE, l |-> [L EXCEPT !.lock = <<who>>]]

\* access for the holder of the claim; fails if unclaimed or claimed by another
Lock_acquire(L, who) == L.lock = <<who>>

\* relinquish the claim without clearing the contents
Lock_release(L, who) ==
    IF L.lock = <<who>>
    THEN [ok |-> TRUE, l |-> [L EXCEPT !.lock = <<>>]]
    ELSE [ok |-> FALSE, l |-> L]

\* SwapBuffer::write: append, or fail (nothing written) beyond the capacity
SwapBuffer_write(buf, bytes) ==
    IF Len(buf) + Len(bytes) > BufCap
    THEN [ok |-> FALSE, buf |-> buf]
    ELSE [ok |-> TRUE, buf |-> buf \o bytes]

----------------------------------------------------------------------------
(* The length header of an RLP encoded transaction *)

RECURSIVE BigEndian(_)
BigEndian(bytes) ==
    IF bytes = <<>> THEN 0
    ELSE 256 * BigEndian(SubSeq(bytes, 1, Len(bytes) - 1)) + Last(bytes)

\* the version byte of a typed transaction (0x01 EIP2930, 0x02 EIP1559), 0 if legacy
TxVersion(data) ==
    IF Len(data) > 0 /\ data[1] \in {1, 2} THEN data[1] ELSE 0

\* (read, to_read): the bytes of the header (version byte and list header)
\* and the payload length the list header declares
NoHdr == [ok |-> FALSE, read |-> 0, to_read |-> 0]

get_tx_rlp_len(data) ==
    LET skip == IF TxVersion(data) # 0 THEN 1 ELSE 0
        rlp == Drop(data, skip)
        bad == NoHdr
    IN  IF Len(rlp) = 0 THEN bad
        ELSE LET marker == rlp[1] IN
             IF marker >= 192 /\ marker <= 247
             THEN [ok |-> TRUE, read |-> skip + 1, to_read |-> marker - 192]
             ELSE IF marker >= 248
             THEN LET n == marker - 247 IN
                  IF Len(rlp) < 1 + n THEN bad
                  ELSE [ok |-> TRUE, read |-> skip + 1 + n,
                        to_read |-> BigEndian(SubSeq(rlp, 2, 1 + n))]
             ELSE bad

----------------------------------------------------------------------------
(* EthTransaction: the typed view decoded over the buffer *)

\* the items of an RLP list payload: a byte below 0x80 is an item of its own,
\* 0x80..0xB7 prefixes a string of 0..55 bytes
RECURSIVE ParseItems(_)
ParseItems(bytes) ==
    IF bytes = <<>> THEN [ok |-> TRUE, items |-> <<>>]
    ELSE LET b == bytes[1] IN
         IF b < 128
         THEN LET r == ParseItems(Drop(bytes, 1)) IN
              [ok |-> r.ok, items |-> <<(<<b>>)>> \o r.items]
         ELSE IF b <= 183 /\ Len(bytes) >= 1 + (b - 128)
         THEN LET r == ParseItems(Drop(bytes, 1 + (b - 128))) IN
              [ok |-> r.ok, items |-> <<SubSeq(bytes, 2, 1 + (b - 128))>> \o r.items]
         ELSE [ok |-> FALSE, items |-> <<>>]

NoTx == [version |-> 0, items |-> <<>>]

\* decodes one transaction from the front of txdata; rem is what it leaves
EthTransaction_from_bytes_into(txdata) ==
    LET h == get_tx_rlp_len(txdata)
        bad == [ok |-> FALSE, tx |-> NoTx, rem |-> <<>>]
    IN  IF ~h.ok \/ Len(txdata) < h.read + h.to_read THEN bad
        ELSE LET p == ParseItems(SubSeq(txdata, h.read + 1, h.read + h.to_read)) IN
             IF ~p.ok \/ p.items = <<>> THEN bad
             ELSE [ok |-> TRUE,
                   tx |-> [version |-> TxVersion(txdata), items |-> p.items],
                   rem |-> Drop(txdata, h.read + h.to_read)]

LowByte(item) == IF item = <<>> THEN 0 ELSE Last(item)

\* the chain id is the first item of a typed transaction and the seventh of
\* a legacy one that carries it (EIP-155); a legacy one without it has 0
chain_id_low_byte(tx) ==
    IF tx.version # 0 THEN LowByte(tx.items[1])
    ELSE IF Len(tx.items) >= 9 THEN LowByte(tx.items[7])
    ELSE 0

\* a transaction with call data is the shape that records NFT context
NftShape(tx) == Len(tx.items) >= 2 /\ tx.items[2] # <<>>

\* Keccak::<32>::digest, as a symbolic (injective) hash of its input
Keccak(bytes) == [keccak |-> bytes]

NoUI == [live |-> FALSE, pending |-> FALSE, hash |-> Keccak(<<>>), tx |-> NoTx,
         path |-> <<>>]

----------------------------------------------------------------------------
(* Sign::start_sign *)

\* mutant: the digest is computed over all of txdata
to_hash_all(txdata, rem) == txdata

\* the prefix of txdata the digest is computed over
to_hash(txdata, rem) == SubSeq(txdata, 1, Len(txdata) - Len(rem))

\* st is [PATH, BUFFER, NFT_INFO, ui]; digestOk is whether the digest
\* primitive succeeds.  The result is [ok, err, st, tx].
start_sign(st, txdata, digestOk) ==
    LET p == EthTransaction_from_bytes_into(txdata) IN
    IF ~p.ok THEN [ok |-> FALSE, err |-> DataInvalid, st |-> st, tx |-> 0]
    ELSE LET nl == Lock_lock(st.NFT_INFO, Sign)
             st1 == IF NftShape(p.tx) /\ nl.ok
                    THEN [st EXCEPT !.NFT_INFO = [nl.l EXCEPT !.item = <<p.tx.items[2]>>]]
                    ELSE st
         IN  IF ~digestOk
             THEN [ok |-> FALSE, err |-> ExecutionError, st |-> st1, tx |-> 0]
             ELSE [ok |-> TRUE, err |-> Success, tx |-> 0,
                   st |-> [st1 EXCEPT !.ui =
                             [live |-> TRUE, pending |-> TRUE,
                              hash |-> Keccak(to_hash(txdata, p.rem)),
                              tx |-> p.tx,
                              path |-> st1.PATH.item]]]

----------------------------------------------------------------------------
(* Sign::handle *)

\* the derivation path at the front of an init payload, and the rest
parse_bip32_eth(pkt) ==
    [ok |-> pkt.path \in Paths, path |-> pkt.path, rest |-> pkt.data]

\* what a handler returns: the new state, the status, *tx, and whether
\* start_sign was invoked
Outcome(st, status, tx, fin) ==
    [st |-> st, status |-> status, tx |-> tx, finalize |-> fin]

\* mutant: every byte after the derivation path is written
init_len_available(read, to_read, rest) == Len(rest)

\* init: the bytes of this packet written to the buffer
init_len(read, to_read, rest) == Min(to_read + read, Len(rest))

handle_init(st, pkt, digestOk) ==
    IF ~pkt.lenOk THEN Outcome(st, WrongLength, 0, FALSE)
    ELSE
    LET p == parse_bip32_eth(pkt) IN
    IF ~p.ok THEN Outcome(st, DataInvalid, 0, FALSE)
    ELSE
    LET pl == Lock_lock(st.PATH, Sign) IN
    IF ~pl.ok THEN Outcome(st, ApduCodeConditionsNotSatisfied, 0, FALSE)
    ELSE
    LET st1 == [st EXCEPT !.PATH = [pl.l EXCEPT !.item = <<p.path>>]]
        h == get_tx_rlp_len(p.rest)
    IN
    IF ~h.ok THEN Outcome(st1, DataInvalid, 0, FALSE)
    ELSE
    LET len == init_len(h.read, h.to_read, p.rest)
        bl == Lock_lock(st1.BUFFER, Sign)
    IN
    IF ~bl.ok THEN Outcome(st1, ApduCodeConditionsNotSatisfied, 0, FALSE)
    ELSE
    LET w == SwapBuffer_write(<<>>, SubSeq(p.rest, 1, len))
        st2 == [st1 EXCEPT !.BUFFER = [bl.l EXCEPT !.item = w.buf]]
    IN
    IF ~w.ok THEN Outcome(st2, ExecutionError, 0, FALSE)
    ELSE IF h.to_read + h.read - len = 0
    THEN LET s == start_sign(st2, st2.BUFFER.item, digestOk) IN
         Outcome(s.st, s.err, s.tx, TRUE)
    ELSE Outcome(st2, Success, 0, FALSE)

\* mutant: the next branch resets the buffer before writing, as init does
next_write_reset(buf, payload, len) == SwapBuffer_write(<<>>, SubSeq(payload, 1, len))

\* mutant: the whole payload is written, also what exceeds the missing bytes
next_write_all(buf, payload, len) == SwapBuffer_write(buf, payload)

\* next: buffer.write(&payload[..len])
next_write(buf, payload, len) == SwapBuffer_write(buf, SubSeq(payload, 1, len))

\* mutant: the header bytes in the buffer are counted as payload received
missing_bytes_no_header(read, to_read, buflen) == to_read - buflen

\* mutant: the bytes already in the buffer are not subtracted
missing_bytes_declared(read, to_read, buflen) == to_read

\* next: the payload bytes still expected, from the buffer as it is
missing_bytes(read, to_read, buflen) == to_read - (buflen - read)

handle_next(st, pkt, digestOk) ==
    IF ~pkt.lenOk THEN Outcome(st, WrongLength, 0, FALSE)
    ELSE IF ~Lock_acquire(st.BUFFER, Sign)
    THEN Outcome(st, ApduCodeConditionsNotSatisfied, 0, FALSE)
    ELSE
    LET h == get_tx_rlp_len(st.BUFFER.item) IN
    IF ~h.ok THEN Outcome(st, DataInvalid, 0, FALSE)
    ELSE
    LET missing == missing_bytes(h.read, h.to_read, Len(st.BUFFER.item))
        len == Min(missing, Len(pkt.data))
        w == next_write(st.BUFFER.item, pkt.data, len)
        st1 == [st EXCEPT !.BUFFER.item = w.buf]
    IN
    IF ~w.ok THEN Outcome(st, ExecutionError, 0, FALSE)
    ELSE IF missing - len = 0
    THEN LET s == start_sign(st1, st1.BUFFER.item, digestOk) IN
         Outcome(s.st, s.err, s.tx, TRUE)
    ELSE Outcome(st1, Success, 0, FALSE)

\* mutant: a packet of unknown kind resets the buffer before it is refused
handle_unknown_resets(st, pkt, digestOk) ==
    IF pkt.p1 = 0 THEN handle_init(st, pkt, digestOk)
    ELSE IF pkt.p1 = 128 THEN handle_next(st, pkt, digestOk)
    ELSE Outcome([st EXCEPT !.BUFFER.item = <<>>], InvalidP1P2, 0, FALSE)

handle(st, pkt, digestOk) ==
    IF pkt.p1 = 0 THEN handle_init(st, pkt, digestOk)
    ELSE IF pkt.p1 = 128 THEN handle_next(st, pkt, digestOk)
    ELSE Outcome(st, InvalidP1P2, 0, FALSE)


----------------------------------------------------------------------------
(* cleanup_globals *)

\* mutant: the resource is cleared but its claim is never released
cleanup_one_no_release(L, empty) ==
    IF Lock_acquire(L, Sign) THEN [L EXCEPT !.item = empty] ELSE L

\* mutant: a resource that cannot be acquired is cleared all the same
cleanup_one_forced(L, empty) ==
    IF Lock_acquire(L, Sign)
    THEN Lock_release([L EXCEPT !.item = empty], Sign).l
    ELSE [L EXCEPT !.item = empty]

\* acquire; if that succeeds clear the contents and release
cleanup_one(L, empty) ==
    IF Lock_acquire(L, Sign)
    THEN Lock_release([L EXCEPT !.item = empty], Sign).l
    ELSE L

cleanup_globals(st) ==
    [st EXCEPT !.PATH = cleanup_one(st.PATH, <<>>),
               !.BUFFER = cleanup_one(st.BUFFER, <<>>),
               !.NFT_INFO = cleanup_one(st.NFT_INFO, <<>>)]

----------------------------------------------------------------------------
(* The signing primitive and the signature conversion *)

\* a DER signature as the primitive returns it: the low bit of the first
\* byte carries the parity v
DER(v, r, s) ==
    <<48 + v, Len(r) + Len(s) + 4, 2, Len(r)>> \o r \o <<2, Len(s)>> \o s

\* outcomes of Sign::sign the model draws from: failure, well-formed
\* signatures (R or S of 31, 32 and 33 bytes, S ending odd and even) and a
\* signature whose DER structure is malformed
SignOutcomes ==
    {[ok |-> FALSE, sig |-> <<48>>]}
    \cup {[ok |-> TRUE, sig |-> DER(0, <<0>> \o Rep(32, 200), Rep(32, 3))],
          [ok |-> TRUE, sig |-> DER(1, Rep(31, 17), <<0>> \o Rep(32, 130))],
          [ok |-> TRUE, sig |-> <<48, 3, 2, 1, 5>>]}

\* DER to R and S, each right-aligned in 33 bytes
convert_der_to_rs(sig) ==
    LET bad == [ok |-> FALSE, r |-> <<>>, s |-> <<>>] IN
    IF Len(sig) < 8 \/ sig[1] # 48 \/ sig[2] # Len(sig) - 2 \/ sig[3] # 2 THEN bad
    ELSE LET rlen == sig[4] IN
         IF rlen = 0 \/ rlen > 33 \/ Len(sig) < 6 + rlen \/ sig[5 + rlen] # 2 THEN bad
         ELSE LET slen == sig[6 + rlen] IN
              IF slen = 0 \/ slen > 33 \/ Len(sig) # 6 + rlen + slen THEN bad
              ELSE [ok |-> TRUE,
                    r |-> Rep(33 - rlen, 0) \o SubSeq(sig, 5, 4 + rlen),
                    s |-> Rep(33 - slen, 0) \o SubSeq(sig, 7 + rlen, 6 + rlen + slen)]

----------------------------------------------------------------------------
(* SignUI::accept and SignUI::reject *)

\* mutant: the path is used without being acquired
get_derivation_info_unchecked(st) == TRUE

\* PATH.acquire gives Ok(Some(path))
get_derivation_info(st) == Lock_acquire(st.PATH, Sign) /\ st.PATH.item # <<>>

\* mutant: S is copied before R
write_vsr(v0, r, s) == <<v0>> \o Drop(s, 1) \o Drop(r, 1)

\* the response as V, R, S: R and S without the first of their 33 bytes
write_vrs(v0, r, s) == <<v0>> \o Drop(r, 1) \o Drop(s, 1)

\* mutant: the pre-EIP-155 offset 27 in place of 35
recovery_v_27(parity, chain_id_byte) ==
    IF chain_id_byte = 0 THEN parity
    ELSE parity + ((chain_id_byte * 2) % 256) + 27

\* the V byte as the sum the code forms in u8 arithmetic, before it is
\* narrowed: (out[tx - 1] & 0x01) + (chain_id_byte << 1) + 35
recovery_v(parity, chain_id_byte) ==
    IF chain_id_byte = 0 THEN parity
    ELSE parity + ((chain_id_byte * 2) % 256) + 35

\* the call Sign::sign(path, &self.hash[..]), path as read from PATH, and
\* whether it returned Ok
Signed(st, ok) == <<[path |-> st.PATH.item, data |-> st.ui.hash, ok |-> ok]>>

\* what accept returns: the new state, (len, status), the response bytes,
\* whether the u8 addition overflowed in a build that checks overflow, and
\* the call of the signing primitive it made (<<>> if none)
Accepted(st, len, status, out, panic, sign) ==
    [st |-> st, len |-> len, status |-> status, out |-> out, panic |-> panic,
     sign |-> sign]

\* mutant: cleanup runs after the conversion, so not when it fails
accept_cleanup_after_convert(st, so, overflowChecks) ==
    IF ~get_derivation_info(st)
    THEN Accepted(st, 0, ApduCodeConditionsNotSatisfied, <<>>, FALSE, <<>>)
    ELSE IF ~so.ok THEN Accepted(st, 0, ExecutionError, <<>>, FALSE, Signed(st, FALSE))
    ELSE
    LET st1 == cleanup_globals(st)
        v0 == so.sig[1] % 2
        c == convert_der_to_rs([so.sig EXCEPT ![1] = 48])
    IN
    IF ~c.ok THEN Accepted(st, 0, ExecutionError, <<>>, FALSE, Signed(st, TRUE))
    ELSE
    LET out == write_vrs(v0, c.r, c.s)
        tx == 1 + 32 + 32
        v == recovery_v(out[tx] % 2, chain_id_low_byte(st.ui.tx))
    IN
    IF v > 255 /\ overflowChecks
    THEN Accepted(st1, 0, "Panic", <<>>, TRUE, Signed(st, TRUE))
    ELSE Accepted(st1, tx, Success, [out EXCEPT ![1] = v % 256], FALSE, Signed(st, TRUE))

\* so is the outcome of the signing primitive, overflowChecks the build's
\* overflow-checks setting
accept(st, so, overflowChecks) ==
    IF ~get_derivation_info(st)
    THEN Accepted(st, 0, ApduCodeConditionsNotSatisfied, <<>>, FALSE, <<>>)
    ELSE IF ~so.ok THEN Accepted(st, 0, ExecutionError, <<>>, FALSE, Signed(st, FALSE))
    ELSE
    LET st1 == cleanup_globals(st)
        v0 == so.sig[1] % 2
        c == convert_der_to_rs([so.sig EXCEPT ![1] = 48])
    IN
    IF ~c.ok THEN Accepted(st1, 0, ExecutionError, <<>>, FALSE, Signed(st, TRUE))
    ELSE
    LET out == write_vrs(v0, c.r, c.s)
        tx == 1 + 32 + 32
        v == recovery_v(out[tx] % 2, chain_id_low_byte(st.ui.tx))
    IN
    IF v > 255 /\ overflowChecks
    THEN Accepted(st1, 0, "Panic", <<>>, TRUE, Signed(st, TRUE))
    ELSE Accepted(st1, tx, Success, [out EXCEPT ![1] = v % 256], FALSE, Signed(st, TRUE))

reject(st) ==
    Accepted(cleanup_globals(st), 0, CommandNotAllowed, <<>>, FALSE, <<>>)

----------------------------------------------------------------------------
(* NFTTransferOperation::from_bytes_into *)

U32_SIZE == 4

TYPE_ID == 13

\* TYPE_ID.to_be_bytes()
to_be_bytes(n) == <<0, 0, 0, n>>

\* a big-endian u32 of the input: whether it is below 2^16, its value then,
\* and its value modulo 2^30 (the part whose product with U32_SIZE fits 32 bits)
be_u32(b) ==
    [small |-> b[1] = 0 /\ b[2] = 0,
     v |-> b[3] * 256 + b[4],
     hi |-> b[1] \div 64,
     low30 |-> (b[1] % 64) * 16777216 + b[2] * 65536 + b[3] * 256 + b[4]]

\* the builds of the decoder: a 64-bit usize, a 32-bit usize that wraps, a
\* 32-bit usize with overflow checks
Builds == {"usize64", "usize32", "usize32_checked"}

\* mutant: the count is taken as a number of bytes, not of U32_SIZE groups
take_indices_bytes(num_indices, rem, build) ==
    IF num_indices.small /\ num_indices.v <= Len(rem)
    THEN [status |-> "Ok", n |-> num_indices.v]
    ELSE [status |-> "Err", n |-> 0]

\* take(num_indices as usize * U32_SIZE)(rem): the number of bytes taken, or
\* an error when rem is shorter (an input is far shorter than 2^16 bytes),
\* or a panic when the product overflows a checked usize
take_indices(num_indices, rem, build) ==
    LET err == [status |-> "Err", n |-> 0]
        fits(k) == IF k * U32_SIZE <= Len(rem)
                   THEN [status |-> "Ok", n |-> k * U32_SIZE] ELSE err
    IN  IF build = "usize64" \/ num_indices.hi = 0
        THEN IF num_indices.small THEN fits(num_indices.v) ELSE err
        ELSE IF build = "usize32_checked" THEN [status |-> "Panic", n |-> 0]
        ELSE IF num_indices.low30 <= Len(rem) THEN fits(num_indices.low30) ELSE err

\* bytemuck::try_cast_slice: the bytes as groups of U32_SIZE bytes
try_cast_slice(bytes) ==
    [i \in 1..(Len(bytes) \div U32_SIZE) |->
        SubSeq(bytes, (i - 1) * U32_SIZE + 1, i * U32_SIZE)]

\* NFTTransferOutput::from_bytes_into: type id 0x0000000b, group id, payload
\* with its length, locktime, threshold, the addresses with their number
NFTTransferOutput_from_bytes_into(input) ==
    LET bad == [ok |-> FALSE, rem |-> <<>>] IN
    IF Len(input) < 12 \/ SubSeq(input, 1, 4) # <<0, 0, 0, 11>> THEN bad
    ELSE LET plen == be_u32(SubSeq(input, 9, 12)) IN
         IF ~plen.small \/ Len(input) < 12 + plen.v + 16 THEN bad
         ELSE LET at == 12 + plen.v + 12
                  naddr == be_u32(SubSeq(input, at + 1, at + 4))
              IN  IF ~naddr.small \/ Len(input) < at + 4 + naddr.v * 20 THEN bad
                  ELSE [ok |-> TRUE, rem |-> Drop(input, at + 4 + naddr.v * 20)]

NftResult(status, indices, rem) ==
    [status |-> status, address_indices |-> indices, rem |-> rem]

NFTTransferOperation_from_bytes_into(input, build) ==
    LET err == NftResult("Err", <<>>, <<>>) IN
    IF Len(input) < 4 \/ SubSeq(input, 1, 4) # to_be_bytes(TYPE_ID) THEN err
    ELSE LET rem1 == Drop(input, 4) IN
    IF Len(rem1) < 4 THEN err
    ELSE LET num_indices == be_u32(SubSeq(rem1, 1, 4))
             rem2 == Drop(rem1, 4)
             t == take_indices(num_indices, rem2, build)
         IN
    IF t.status # "Ok" THEN NftResult(t.status, <<>>, <<>>)
    ELSE LET indices == try_cast_slice(SubSeq(rem2, 1, t.n))
             o == NFTTransferOutput_from_bytes_into(Drop(rem2, t.n))
         IN
    IF ~o.ok THEN err ELSE NftResult("Ok", indices, o.rem)

NoNft == [input |-> [tag |-> <<>>, count |-> <<>>, indices |-> <<>>,
                     output |-> <<>>, trailing |-> <<>>],
          done |-> FALSE, build |-> "usize64", result |-> NftResult("Err", <<>>, <<>>)]

\* most address indices the inputs of the model carry
MaxIndices == 2

\* the nested output of the sample (payload 0x431100, two addresses), one
\* with neither payload nor address, and two malformed ones
SampleOutput ==
    <<0, 0, 0, 11, 0, 0, 48, 57, 0, 0, 0, 3, 67, 17, 0>>
    \o <<0, 0, 0, 0, 0, 0, 212, 49, 0, 0, 0, 1, 0, 0, 0, 2>>
    \o <<81, 2, 92, 97, 251, 207, 192, 120, 246, 147, 52, 248, 52, 190, 109, 210, 109, 85, 169, 85>>
    \o <<195, 52, 65, 40, 224, 96, 18, 142, 222, 53, 35, 162, 74, 70, 28, 137, 67, 171, 8, 89>>

EmptyOutput == <<0, 0, 0, 11, 0, 0, 0, 1, 0, 0, 0, 0>> \o Rep(8, 0) \o <<0, 0, 0, 1, 0, 0, 0, 0>>

WellFormedOutputs == {SampleOutput, EmptyOutput}

NftOutputs ==
    WellFormedOutputs
    \cup {SubSeq(SampleOutput, 1, 40), [EmptyOutput EXCEPT ![4] = 7]}

NftTags == {to_be_bytes(TYPE_ID), <<1, 0, 0, 13>>, <<0, 0, 0, 11>>, <<0, 0, 13>>}

NftCounts ==
    {<<0, 0, 0, n>> : n \in 0..(MaxIndices + 1)}
    \cup {<<64, 0, 0, 0>>, <<64, 0, 0, 1>>, <<0, 1, 0, 0>>}

NftIndexLists == SeqsUpTo({<<0, 0, 0, 7>>, <<0, 0, 0, 3>>}, MaxIndices)

RECURSIVE Flatten(_)
Flatten(groups) ==
    IF groups = <<>> THEN <<>> ELSE groups[1] \o Flatten(Drop(groups, 1))

NftBytes(in) ==
    in.tag \o in.count \o Flatten(in.indices) \o in.output \o in.trailing

----------------------------------------------------------------------------
(* The state machine *)

Unlocked(empty) == [lock |-> <<>>, item |-> empty]

NoRet == [op |-> "none", status |-> Success, len |-> 0, out |-> <<>>,
          finalize |-> FALSE, sign |-> <<>>]

Init ==
    /\ PATH = Unlocked(<<>>)
    /\ BUFFER = Unlocked(<<>>)
    /\ NFT_INFO = Unlocked(<<>>)
    /\ ui = NoUI
    /\ ret = NoRet
    /\ hdr = NoHdr
    /\ stream = <<>>
    /\ pos = 0
    /\ nft = NoNft

St == [PATH |-> PATH, BUFFER |-> BUFFER, NFT_INFO |-> NFT_INFO, ui |-> ui]

SetState(st) ==
    /\ PATH' = st.PATH
    /\ BUFFER' = st.BUFFER
    /\ NFT_INFO' = st.NFT_INFO
    /\ ui' = st.ui

Handled(op, o) ==
    /\ SetState(o.st)
    /\ ret' = [op |-> op, status |-> o.status, len |-> o.tx, out |-> <<>>,
               finalize |-> o.finalize, sign |-> <<>>]

Packet(p1, lenOk, path, data) ==
    [p1 |-> p1, lenOk |-> lenOk, path |-> path, data |-> data]

\* the packets of the model: a payload the transport cannot deliver
\* (lenOk false) and an init payload whose path does not parse carry no data
InitPackets ==
    {Packet(0, TRUE, path, data) : path \in Paths, data \in SeqsUpTo(DataBytes, MaxData)}
    \cup {Packet(0, TRUE, "bad", <<>>), Packet(0, FALSE, "bad", <<>>)}

NextPackets ==
    {Packet(128, TRUE, "bad", data) : data \in SeqsUpTo(DataBytes, MaxData)}
    \cup {Packet(128, FALSE, "bad", <<>>)}

\* history: the (read, to_read) pair the init branch computed from its
\* packet (line 131), kept when the packet did not get that far
init_hdr(old, st, pkt) ==
    IF pkt.lenOk /\ parse_bip32_eth(pkt).ok /\ Lock_lock(st.PATH, Sign).ok
       /\ get_tx_rlp_len(pkt.data).ok
    THEN get_tx_rlp_len(pkt.data)
    ELSE old

\* an init packet (P1 = 0x00): a derivation path and the first bytes
HandleInit ==
    \E pkt \in InitPackets, digestOk \in BOOLEAN :
        /\ Handled("init", handle(St, pkt, digestOk))
        /\ hdr' = init_hdr(hdr, St, pkt)
        /\ UNCHANGED <<stream, pos, nft>>

\* a continuation packet (P1 = 0x80): further bytes
HandleNext ==
    \E pkt \in NextPackets, digestOk \in BOOLEAN :
        /\ Handled("next", handle(St, pkt, digestOk))
        /\ UNCHANGED <<hdr, stream, pos, nft>>

\* a packet with any other P1
HandleOther ==
    \E p1 \in {1, 129} :
        LET pkt == Packet(p1, TRUE, "bad", <<>>) IN
        /\ Handled("other", handle(St, pkt, TRUE))
        /\ UNCHANGED <<hdr, stream, pos, nft>>

Decided(op, a) ==
    /\ PATH' = a.st.PATH
    /\ BUFFER' = a.st.BUFFER
    /\ NFT_INFO' = a.st.NFT_INFO
    /\ ui' = IF a.panic THEN NoUI ELSE [ui EXCEPT !.pending = FALSE]
    /\ ret' = [op |-> op, status |-> a.status, len |-> a.len, out |-> a.out,
               finalize |-> FALSE, sign |-> a.sign]
    /\ UNCHANGED <<hdr, stream, pos, nft>>

\* the operator approves the review
Accept ==
    /\ ui.live
    /\ \E so \in SignOutcomes, overflowChecks \in BOOLEAN :
           Decided("accept", accept(St, so, overflowChecks))

\* the operator rejects the review
Reject ==
    /\ ui.live
    /\ Decided("reject", reject(St))

Next == HandleInit \/ HandleNext \/ HandleOther \/ Accept \/ Reject

Spec == Init /\ [][Next]_vars


----------------------------------------------------------------------------
(* A host that delivers one transaction in chunks *)

\* the byte values of the delivered transactions: those of DataBytes and
\* 0xF8 (header of a list whose length takes one byte)
StreamBytes == DataBytes \cup {248}

\* header and declared payload: the header parses and declares exactly the
\* bytes that follow it
IsWholeTx(bytes) ==
    LET h == get_tx_rlp_len(bytes) IN h.ok /\ Len(bytes) = h.read + h.to_read

ChunkStreams == {b \in SeqsUpTo(StreamBytes, MaxStream) : IsWholeTx(b)}

InitChunk ==
    /\ PATH = Unlocked(<<>>)
    /\ BUFFER = Unlocked(<<>>)
    /\ NFT_INFO = Unlocked(<<>>)
    /\ ui = NoUI
    /\ ret = NoRet
    /\ hdr = NoHdr
    /\ stream \in ChunkStreams
    /\ pos = 0
    /\ nft = NoNft

\* the first k bytes go in the init packet
DeliverInit ==
    /\ ret.op = "none"
    /\ \E k \in 0..Len(stream), path \in Paths, digestOk \in BOOLEAN :
           LET pkt == Packet(0, TRUE, path, SubSeq(stream, 1, k)) IN
           /\ Handled("init", handle(St, pkt, digestOk))
           /\ hdr' = init_hdr(hdr, St, pkt)
           /\ pos' = k
           /\ UNCHANGED <<stream, nft>>

\* the next k bytes go in a continuation packet
DeliverNext ==
    /\ ret.op # "none"
    /\ \E k \in 0..(Len(stream) - pos), digestOk \in BOOLEAN :
           LET pkt == Packet(128, TRUE, "bad", SubSeq(stream, pos + 1, pos + k)) IN
           /\ Handled("next", handle(St, pkt, digestOk))
           /\ pos' = pos + k
           /\ UNCHANGED <<hdr, stream, nft>>

NextChunk == DeliverInit \/ DeliverNext

SpecChunk == InitChunk /\ [][NextChunk]_vars

----------------------------------------------------------------------------
(* A host that sends packets of any sizes, each as init or as continuation *)

\* the byte values of the payloads after the first: a list item and the
\* header of a list of one byte
LaterBytes == {1, 193}

\* the payloads the host holds: a first one of up to MaxPacket bytes, the
\* others of up to MaxData bytes
HostStreams ==
    {<<first>> \o others :
        first \in SeqsUpTo(DataBytes, MaxPacket),
        others \in SeqsUpTo(SeqsUpTo(LaterBytes, MaxData), MaxPackets - 1)}

InitHost ==
    /\ PATH = Unlocked(<<>>)
    /\ BUFFER = Unlocked(<<>>)
    /\ NFT_INFO = Unlocked(<<>>)
    /\ ui = NoUI
    /\ ret = NoRet
    /\ hdr = NoHdr
    /\ stream \in HostStreams
    /\ pos = 0
    /\ nft = NoNft

\* the payload of the packet handled last, and the one to send
Sent == stream[pos]

ToSend == stream[pos + 1]

\* the next payload goes in an init packet
SendInit ==
    /\ pos < Len(stream)
    /\ \E path \in Paths, digestOk \in BOOLEAN :
           LET pkt == Packet(0, TRUE, path, ToSend) IN
           /\ Handled("init", handle(St, pkt, digestOk))
           /\ hdr' = init_hdr(hdr, St, pkt)
    /\ pos' = pos + 1
    /\ UNCHANGED <<stream, nft>>

\* the next payload goes in a continuation packet
SendNext ==
    /\ pos < Len(stream)
    /\ \E digestOk \in BOOLEAN :
           Handled("next", handle(St, Packet(128, TRUE, "bad", ToSend), digestOk))
    /\ pos' = pos + 1
    /\ UNCHANGED <<hdr, stream, nft>>

NextHost == SendInit \/ SendNext

SpecHost == InitHost /\ [][NextHost]_vars

----------------------------------------------------------------------------
(* start_sign and the review applied to transactions of every chain id *)

\* the RLP item of a chain id whose low byte is c
ChainItem(c) ==
    IF c = 0 THEN <<128>> ELSE IF c < 128 THEN <<c>> ELSE <<129, c>>

\* an EIP-1559 transaction (version 2) of the given items
TypedTx(body) == <<2, 192 + Len(body)>> \o body

\* complete well-formed transactions: typed ones of every chain id low
\* byte, one with call data, and legacy ones
DirectTxs ==
    {TypedTx(ChainItem(c)) : c \in 0..255}
    \cup {TypedTx(ChainItem(1) \o <<5>>), <<193, 1>>, <<194, 1, 5>>}

\* bytes a sender appends after the transaction
Trailing == {<<>>, <<0>>, <<2, 193, 7>>}

\* inputs that hold no well-formed transaction
DirectMalformed == {<<>>, <<2>>, <<194, 1>>, <<194, 200, 1>>}

\* a session has claimed PATH and BUFFER; stream is the txdata start_sign is
\* given and pos the length of the transaction at its front (0 if none)
InitDirect ==
    /\ \E path \in Paths : PATH = [lock |-> <<Sign>>, item |-> <<path>>]
    /\ BUFFER = [lock |-> <<Sign>>, item |-> <<>>]
    /\ NFT_INFO = Unlocked(<<>>)
    /\ ui = NoUI
    /\ ret = NoRet
    /\ hdr = NoHdr
    /\ \/ \E t \in DirectTxs, x \in Trailing : stream = t \o x /\ pos = Len(t)
       \/ stream \in DirectMalformed /\ pos = 0
    /\ nft = NoNft

Finalize ==
    /\ ret.op = "none"
    /\ \E digestOk \in BOOLEAN :
           LET s == start_sign(St, stream, digestOk) IN
           /\ SetState(s.st)
           /\ ret' = [op |-> "start_sign", status |-> s.err, len |-> s.tx,
                      out |-> <<>>, finalize |-> TRUE, sign |-> <<>>]
    /\ UNCHANGED <<hdr, stream, pos, nft>>

NextDirect == Finalize \/ Accept \/ Reject

SpecDirect == InitDirect /\ [][NextDirect]_vars

----------------------------------------------------------------------------
(* cleanup_globals applied to every state of the three guarded resources *)

\* a resource is unclaimed, claimed by Sign, or claimed by another accessor
Holders == {<<>>, <<Sign>>, <<"Other">>}

ResourceStates(items) == [lock : Holders, item : items]

InitCleanup ==
    /\ PATH \in ResourceStates({<<>>} \cup {<<p>> : p \in Paths})
    /\ BUFFER \in ResourceStates({<<>>, <<193>>, <<193, 1>>})
    /\ NFT_INFO \in ResourceStates({<<>>, <<(<<5>>)>>})
    /\ ui = NoUI
    /\ ret = NoRet
    /\ hdr = NoHdr
    /\ stream = <<>>
    /\ pos = 0
    /\ nft = NoNft

\* cleanup_globals() returns Ok(()) on every path
Cleanup ==
    /\ SetState(cleanup_globals(St))
    /\ ret' = [NoRet EXCEPT !.op = "cleanup", !.status = Success]
    /\ UNCHANGED <<hdr, stream, pos, nft>>

NextCleanup == Cleanup

SpecCleanup == InitCleanup /\ [][NextCleanup]_vars

----------------------------------------------------------------------------
(* Decoding inputs of the NFTTransferOperation decoder *)

InitNft ==
    /\ PATH = Unlocked(<<>>)
    /\ BUFFER = Unlocked(<<>>)
    /\ NFT_INFO = Unlocked(<<>>)
    /\ ui = NoUI
    /\ ret = NoRet
    /\ hdr = NoHdr
    /\ stream = <<>>
    /\ pos = 0
    /\ \E tag \in NftTags, count \in NftCounts, indices \in NftIndexLists,
          output \in NftOutputs, trailing \in {<<>>, <<9>>} :
           nft = [NoNft EXCEPT !.input = [tag |-> tag, count |-> count,
                                          indices |-> indices, output |-> output,
                                          trailing |-> trailing]]

Decode ==
    /\ ~nft.done
    /\ \E build \in Builds :
           nft' = [nft EXCEPT !.done = TRUE, !.build = build,
                              !.result = NFTTransferOperation_from_bytes_into(
                                             NftBytes(nft.input), build)]
    /\ UNCHANGED <<PATH, BUFFER, NFT_INFO, ui, ret, hdr, stream, pos>>

NextNft == Decode

SpecNft == InitNft /\ [][NextNft]_vars

----------------------------------------------------------------------------
(* Properties *)

Claimed(L) == L.lock # <<>>

\* no guarded resource is claimed and each is cleared
AllReleased ==
    /\ PATH = Unlocked(<<>>)
    /\ BUFFER = Unlocked(<<>>)
    /\ NFT_INFO = Unlocked(<<>>)

\* a session is live: the Derivation Path resource is claimed and populated
SessionLive == PATH.lock = <<Sign>> /\ PATH.item # <<>>

\* C1: an init packet handled while a session is live fails and leaves the
\* session's reassembly buffer and derivation path as they were.  (Stated
\* with any error status, which the claim's ConditionsNotSatisfied implies.)
C1_InitWhileLiveFails ==
    [][(SessionLive /\ BUFFER.lock = <<Sign>> /\ BUFFER.item # <<>> /\ ret'.op = "init")
         => (ret'.status # Success /\ BUFFER' = BUFFER /\ PATH' = PATH)]_vars

\* the last call was a terminal transition of a session: a reject, an accept
\* that signed or failed in signing or formatting, or a finalize that failed
Terminal ==
    \/ ret.op = "reject"
    \/ ret.op = "accept" /\ ret.status \in {Success, ExecutionError}
    \/ ret.op \in {"init", "next"} /\ ret.finalize /\ ret.status # Success

\* C2: after any terminal transition of a session all three guarded
\* resources are unclaimed and cleared.
C2_CleanupTotality == Terminal => AllReleased

\* C4: every reject, the first and any that follows it, returns a
\* zero-length response with CommandNotAllowed and leaves none of PATH,
\* BUFFER and NFT_INFO claimed.
C4_RejectReleasesAll ==
    ret.op = "reject" =>
        /\ ret.len = 0 /\ ret.out = <<>>
        /\ ret.status = CommandNotAllowed
        /\ ~Claimed(PATH) /\ ~Claimed(BUFFER) /\ ~Claimed(NFT_INFO)

\* a review of a transaction that recorded NFT context (so all three
\* resources were claimed) has been rejected
C4_Witness ==
    /\ ret.op = "reject" /\ ret.status = CommandNotAllowed
    /\ ui.live /\ ~ui.pending /\ NftShape(ui.tx)
    /\ AllReleased

\* C5: every failure of the packet handler or of accept returns a
\* zero-length response with an error status and leaves no session resource
\* claimed.
C5_FailureLeavesNothingClaimed ==
    (ret.op \in {"init", "next", "other", "accept"} /\ ret.status \notin {Success, "Panic"})
        => (ret.len = 0 /\ ret.out = <<>> /\ AllReleased)

\* C9: whenever the buffer holds session data, re-scanning its front gives
\* the (headerBytes, payloadLength) pair the init packet gave, however many
\* continuation packets have appended bytes.
C9_HeaderRecomputation ==
    (BUFFER.lock = <<Sign>> /\ BUFFER.item # <<>>)
        => get_tx_rlp_len(BUFFER.item) = hdr

\* a continuation packet has appended to the buffer (it holds more than an
\* init packet can carry) and the header re-scans to the init packet's pair
C9_Witness ==
    /\ ret.op = "next" /\ ret.status = Success
    /\ BUFFER.lock = <<Sign>> /\ Len(BUFFER.item) > MaxData
    /\ hdr.ok /\ get_tx_rlp_len(BUFFER.item) = hdr


\* the buffer a single init packet carrying all of bytes leaves
OneShotBuffer(bytes) ==
    handle_init([PATH |-> Unlocked(<<>>), BUFFER |-> Unlocked(<<>>),
                 NFT_INFO |-> Unlocked(<<>>), ui |-> NoUI],
                Packet(0, TRUE, "m/44'/60'/0'/0/0", bytes), TRUE).st.BUFFER.item

\* C3: when a packet of a chunked delivery invokes start_sign, every byte of
\* the transaction has been delivered and the reassembly buffer equals the
\* buffer that one init packet carrying the whole transaction leaves.
C3_ReassemblyEqualsOneShot ==
    ret.finalize => (pos = Len(stream) /\ BUFFER.item = OneShotBuffer(stream))

\* a transaction longer than one header was completed by a continuation packet
C3_Witness ==
    /\ ret.op = "next" /\ ret.finalize /\ ret.status = Success
    /\ pos = Len(stream) /\ Len(stream) >= 3
    /\ BUFFER.item = stream


\* R and S of the signatures of SignOutcomes, as 32 big-endian bytes each
ExpectedRS ==
    {[r |-> Rep(32, 200), s |-> Rep(32, 3)],
     [r |-> <<0>> \o Rep(31, 17), s |-> Rep(32, 130)]}

\* C6: accept returns either 65 bytes (one recovery byte, R, S, in that
\* order) with Success, or no bytes with ExecutionError or
\* ConditionsNotSatisfied.
C6_AcceptResponse ==
    (ret.op = "accept" /\ ret.status # "Panic") =>
        \/ /\ ret.len = 65 /\ ret.status = Success /\ Len(ret.out) = 65
           /\ [r |-> SubSeq(ret.out, 2, 33), s |-> SubSeq(ret.out, 34, 65)] \in ExpectedRS
        \/ /\ ret.len = 0 /\ ret.out = <<>>
           /\ ret.status \in {ExecutionError, ApduCodeConditionsNotSatisfied}

\* accept has signed, with an R shorter than 32 bytes (left-padded)
C6_Witness ==
    /\ ret.op = "accept" /\ ret.status = Success /\ ret.len = 65
    /\ SubSeq(ret.out, 2, 33) = <<0>> \o Rep(31, 17)
    /\ SubSeq(ret.out, 34, 65) = Rep(32, 130)

\* the recovery byte of the claim, in 8-bit arithmetic
ExpectedV(parity, c) == IF c = 0 THEN parity ELSE (parity + c * 2 + 35) % 256

\* C7: the first byte of a successful accept is the parity of the final byte
\* of S when the chain-id low byte is 0, and parity + c * 2 + 35 in 8-bit
\* arithmetic otherwise.
C7_RecoveryByte ==
    (ret.op = "accept" /\ ret.status = Success) =>
        ret.out[1] = ExpectedV(ret.out[65] % 2, chain_id_low_byte(ui.tx))

\* accept has signed a transaction whose chain-id low byte makes the sum
\* exceed 8 bits, with S odd
C7_Witness ==
    /\ ret.op = "accept" /\ ret.status = Success
    /\ chain_id_low_byte(ui.tx) = 250 /\ ret.out[65] % 2 = 1
    /\ ret.out[1] = 24

\* the review handle start_sign makes of txdata
ReviewOf(txdata) ==
    start_sign([St EXCEPT !.ui = NoUI, !.NFT_INFO = Unlocked(<<>>)], txdata, TRUE).st.ui

\* C8: start_sign on a well-formed transaction followed by extra bytes
\* hashes exactly the transaction, and its digest and decoded view are
\* those of the transaction alone.
C8_TrailingData ==
    (ret.op = "start_sign" /\ pos > 0) =>
        /\ ret.status \in {Success, ExecutionError}
        /\ ret.status = Success =>
               /\ ui.hash = Keccak(SubSeq(stream, 1, pos))
               /\ ui.hash = ReviewOf(SubSeq(stream, 1, pos)).hash
               /\ ui.tx = ReviewOf(SubSeq(stream, 1, pos)).tx

\* start_sign has finalized a transaction that is followed by extra bytes
C8_Witness ==
    /\ ret.op = "start_sign" /\ ret.status = Success
    /\ pos > 0 /\ Len(stream) > pos
    /\ ui.pending /\ ui.hash = Keccak(SubSeq(stream, 1, pos))


\* the input is the tag, a count n, n index entries and a well-formed output
NftWellFormed(in) ==
    /\ in.tag = <<0, 0, 0, 13>>
    /\ in.count = <<0, 0, 0, Len(in.indices)>>
    /\ in.output \in WellFormedOutputs

\* C10: decoding an input made of the tag 0x0000000d, a count n, n index
\* entries and a well-formed nested output succeeds, with address_indices
\* the n entries in input order and the remainder what follows the nested
\* output; decoding an input whose first four bytes are not the tag fails.
C10_TransferOperationDecoding ==
    nft.done =>
        /\ NftWellFormed(nft.input) =>
               /\ nft.result.status = "Ok"
               /\ nft.result.address_indices = nft.input.indices
               /\ nft.result.rem = nft.input.trailing
        /\ SubSeq(NftBytes(nft.input), 1, 4) # <<0, 0, 0, 13>> =>
               nft.result.status = "Err"

\* the sample of the test (indices 7 and 3) has been decoded
C10_Witness ==
    /\ nft.done /\ nft.result.status = "Ok"
    /\ NftBytes(nft.input) = <<0, 0, 0, 13, 0, 0, 0, 2, 0, 0, 0, 7, 0, 0, 0, 3>> \o SampleOutput
    /\ nft.result.address_indices = <<(<<0, 0, 0, 7>>), (<<0, 0, 0, 3>>)>>
    /\ nft.result.rem = <<>>

\* a session is collecting: Sign holds the path and the buffer, and the
\* buffer holds the header and fewer payload bytes than the header declares
Collecting ==
    /\ SessionLive /\ BUFFER.lock = <<Sign>>
    /\ LET h == get_tx_rlp_len(BUFFER.item) IN
           h.ok /\ Len(BUFFER.item) < h.read + h.to_read

\* C11: an init packet that succeeds (or gets as far as start_sign) leaves
\* in the buffer exactly the first min(payloadLength + headerBytes, bytes
\* after the derivation path) bytes of its data; it invokes start_sign in
\* the same call if and only if no byte is then missing, and otherwise the
\* session is collecting.
C11_InitStep ==
    (ret.op = "init" /\ (ret.status = Success \/ ret.finalize)) =>
        LET h == get_tx_rlp_len(Sent)
            n == Min(h.to_read + h.read, Len(Sent))
        IN  /\ h.ok
            /\ BUFFER.lock = <<Sign>> /\ BUFFER.item = SubSeq(Sent, 1, n)
            /\ ret.finalize <=> (h.to_read + h.read - n = 0)
            /\ ~ret.finalize => Collecting

\* an init packet that carried more bytes than its header declares has
\* finalized: the bytes beyond the declared length were not written
C11_Witness ==
    /\ ret.op = "init" /\ ret.status = Success /\ ret.finalize
    /\ Len(Sent) > Len(BUFFER.item)
    /\ BUFFER.item = <<193, 1>>

\* the payload bytes a collecting session still expects
Missing ==
    LET h == get_tx_rlp_len(BUFFER.item) IN h.to_read - (Len(BUFFER.item) - h.read)

Idle == AllReleased /\ ~ui.pending

\* a transaction was finalized and its review waits for the operator
AwaitingApproval == ui.pending /\ ~Collecting

\* C13: a continuation packet handled when no session is collecting (none
\* is live, or a finalized transaction is under review) fails, invokes no
\* start_sign and changes neither the guarded resources nor the review.
\* (Stated with any error status, which the claim's "invalid parameters"
\* implies.)
C13_ContinuationOutsideCollecting ==
    [][((Idle \/ AwaitingApproval) /\ ret'.op = "next") =>
          /\ ret'.status # Success /\ ~ret'.finalize
          /\ UNCHANGED <<PATH, BUFFER, NFT_INFO, ui>>]_vars

\* C14: a packet whose P1 is neither 0x00 nor 0x80 fails with InvalidP1P2,
\* whatever the state of the session, and leaves the contents and the claim
\* of PATH, BUFFER and NFT_INFO as they were.
C14_UnknownPacketKind ==
    [][ret'.op = "other" =>
          /\ ret'.status = InvalidP1P2 /\ ret'.len = 0 /\ ~ret'.finalize
          /\ UNCHANGED <<PATH, BUFFER, NFT_INFO>>]_vars

\* a packet of unknown kind was refused while a session held the path, a
\* partly filled buffer and, from an earlier transaction, NFT context
C14_Witness ==
    /\ ret.op = "other" /\ ret.status = InvalidP1P2
    /\ Collecting /\ BUFFER.item # <<>>
    /\ NFT_INFO.lock = <<Sign>> /\ NFT_INFO.item # <<>>

\* C15: in accept, cleanup runs once the signing primitive has returned Ok
\* and before the signature is converted: an accept whose signing succeeded
\* and that returns ExecutionError (the conversion failed) returns no bytes
\* and leaves PATH, BUFFER and NFT_INFO cleared and unclaimed, while an
\* accept whose signing failed has not run cleanup.
C15_AcceptOrdering ==
    (ret.op = "accept" /\ ret.sign # <<>>) =>
        /\ ret.sign[1].ok => AllReleased
        /\ (ret.sign[1].ok /\ ret.status = ExecutionError) =>
               (ret.len = 0 /\ ret.out = <<>>)
        /\ ~ret.sign[1].ok => (ret.status = ExecutionError /\ SessionLive)

\* accept has signed a transaction that recorded NFT context and failed in
\* the conversion of the signature
C15_Witness ==
    /\ ret.op = "accept" /\ ret.status = ExecutionError
    /\ ret.sign # <<>> /\ ret.sign[1].ok
    /\ NftShape(ui.tx) /\ AllReleased

\* C16: an accept called when the Derivation Path resource is not held and
\* populated by Sign (the session was torn down by an earlier accept or
\* reject) returns a zero-length response with ConditionsNotSatisfied,
\* without a call of the signing primitive and without signature bytes.
C16_AcceptNeedsPath ==
    [][(~SessionLive /\ ret'.op = "accept") =>
          /\ ret'.status = ApduCodeConditionsNotSatisfied
          /\ ret'.len = 0 /\ ret'.out = <<>>
          /\ ret'.sign = <<>>]_vars

\* accept was called on a review whose session had been torn down
C16_Witness ==
    /\ ret.op = "accept" /\ ret.status = ApduCodeConditionsNotSatisfied
    /\ ret.sign = <<>>
    /\ ui.live /\ ~ui.pending /\ AllReleased

\* what cleanup makes of one resource: cleared and released if Sign holds
\* it, untouched otherwise
CleanedUp(before, after) ==
    IF before.lock = <<Sign>> THEN after = Unlocked(<<>>) ELSE after = before

\* C17: from any state of the three guarded resources cleanup_globals
\* returns success; each resource it can acquire is cleared and released,
\* each resource it cannot acquire is left untouched; and a second cleanup
\* right after changes nothing.
C17_CleanupIdempotent ==
    [][ret'.op = "cleanup" =>
          /\ ret'.status = Success
          /\ CleanedUp(PATH, PATH')
          /\ CleanedUp(BUFFER, BUFFER')
          /\ CleanedUp(NFT_INFO, NFT_INFO')
          /\ cleanup_globals(St') = St']_vars

\* cleanup ran with the path held by Sign, the buffer held by another
\* accessor and the NFT context populated but unclaimed
C17_Witness ==
    /\ ret.op = "cleanup" /\ ret.status = Success
    /\ PATH = Unlocked(<<>>)
    /\ BUFFER = [lock |-> <<"Other">>, item |-> <<193, 1>>]
    /\ NFT_INFO = [lock |-> <<>>, item |-> <<(<<5>>)>>]

\* the declared count, times U32_SIZE, exceeds the bytes that follow the
\* count field (an input of the model is far shorter than 2^16 bytes)
CountExceedsInput(in) ==
    LET n == be_u32(in.count)
        rest == Flatten(in.indices) \o in.output \o in.trailing
    IN  /\ Len(in.tag) = 4 /\ Len(in.count) = 4
        /\ ~n.small \/ n.v * U32_SIZE > Len(rest)

\* C18: decoding an input whose declared index count n has n * 4 exceed the
\* bytes remaining after the count field does not succeed, in any build,
\* also when n * 4 does not fit the machine word.  (Stated without the kind
\* of the failure, which the claim's parse error implies.)
C18_CountBound ==
    (nft.done /\ CountExceedsInput(nft.input)) => nft.result.status # "Ok"

\* C19: whenever Sign holds a buffer with session data, the header at its
\* front parses and headerBytes <= buffer length <= headerBytes +
\* payloadLength, so that for a continuation packet of any size the
\* differences buffer length - read, to_read - rlp_read and missing - len
\* are not negative.
C19_BufferBound ==
    (BUFFER.lock = <<Sign>> /\ BUFFER.item # <<>>) =>
        LET h == get_tx_rlp_len(BUFFER.item)
            rlp_read == Len(BUFFER.item) - h.read
            missing == missing_bytes(h.read, h.to_read, Len(BUFFER.item))
        IN  /\ h.ok
            /\ h.read <= Len(BUFFER.item)
            /\ Len(BUFFER.item) <= h.read + h.to_read
            /\ rlp_read >= 0 /\ missing >= 0
            /\ \A k \in 0..(MaxData + 1) : missing - Min(missing, k) >= 0

\* a continuation packet has filled the buffer up to the declared length
C19_Witness ==
    /\ ret.op = "next" /\ BUFFER.lock = <<Sign>>
    /\ LET h == get_tx_rlp_len(BUFFER.item) IN
           /\ h.ok /\ h.to_read = 2
           /\ Len(BUFFER.item) = h.read + h.to_read

\* C20: whenever accept obtains a signature from the signing primitive, the
\* path it read from PATH is the one PATH held when the signed digest was
\* computed (ui.path, the path of the init packet of the finalized
\* session), whatever packets arrived between finalize and accept.
C20_PathDigestBinding ==
    (ret.op = "accept" /\ ret.sign # <<>> /\ ret.sign[1].ok) =>
        (ret.sign[1].data = ui.hash /\ ret.sign[1].path = ui.path)

====
